---- MODULE Spec2Model ----
(***************************************************************************)
(* Model of WebScraperApp (src/src/web-scraper.ts): the search entry       *)
(* point, the p-limit fan-out of fetch tasks, the per-URL fetch pipeline   *)
(* and the browser session (getBrowser / close).                           *)
(*                                                                         *)
(* Every await of the source is an interleaving point: an action is the    *)
(* synchronous code that runs from one await's completion to the next      *)
(* await.  External operations (puppeteer, the search API) complete with   *)
(* an outcome chosen by the environment: fulfilled or rejected.            *)
(***************************************************************************)
EXTENDS Integers, Sequences, FiniteSets, TLC

\* ------------------------------------------------------------------ bounds
MaxOrganic   == 3     \* organic results per search, specification Spec
FetchOrganic == 2     \* organic results per search, specification SpecFetch
CloseOrganic == 2     \* organic results per search, specification SpecClose
MaxCloses    == 2     \* close() calls, specification SpecClose
TimedOrganic == 1     \* organic results per search, specification SpecTimed
MaxTime      == 2     \* largest value of the clock, specification SpecTimed
LimitOrganic == 6     \* organic results in an API response, specification SpecLimit
MaxLimit     == 2     \* largest options.limit, specification SpecLimit
LiveOrganic  == 3     \* organic results per search, specification SpecLive
LifeOrganic  == 1     \* organic results per search, specification SpecLife
LifeCloses   == 1     \* close() calls, specification SpecLife
MaxMatched   == 2     \* selectors with a match in a document, specification SpecExtract
MaxMarkdown  == 6     \* pieces of the converted text, specification SpecMarkdown
MaxPrompt    == 150   \* characters of a prompt, specification SpecTrim
MaxContext   == 38    \* tokens of a context size, specification SpecTrim

\* -------------------------------------------------------- program constants
PUPPETEER_CONCURRENCY == 2
MAX_RESULTS == 5

Searches == {1, 2}
Ranks    == 1..(IF MaxOrganic > MAX_RESULTS THEN MaxOrganic ELSE MAX_RESULTS)
Tasks    == Searches \X Ranks
NoBrowser == 0        \* this.browser === null
NoPage    == 0        \* page === null

\* Values of the optional fields html / markdown of a fetch result.
Absent   == <<"undefined">>
EmptyStr == <<"">>

VARIABLES
  browser,      \* this.browser: NoBrowser or the id of a launched browser
  alive,        \* ids of the browser processes that are running
  launched,     \* number of browsers launched so far (the last id handed out)
  activeCount,  \* p-limit: tasks running
  queue,        \* p-limit: tasks waiting for a slot, FIFO
  now,          \* Date.now()
  timings,      \* heap of timing ledgers: object id -> (key -> duration)
  cur,          \* this.timings: id of the current ledger object
  apiKey,       \* SERPER_API_KEY is configured (not '')
  sopt,         \* search s: the `options` argument, as far as `limit` goes
  sorganic,     \* search s: number of organic results in the API response
  ssent,        \* search s: the HTTP request was sent
  sclient,      \* search s: how getSerperSearchResults ended
  spc,          \* search s: position in search()
  sres,         \* search s: searchResults
  sstart,       \* search s: globalStartTime
  sdur,         \* search s: searchDuration
  cstart,       \* search s: contentStartTime
  resp,         \* search s: what the call gave its caller
  slast,        \* search s: rank of the task that settled last so far
  tpc,          \* task t: position in the limited task / fetchContentViaPuppeteer
  tbrowser,     \* task t: local `browser` of fetchContentViaPuppeteer
  tpage,        \* task t: `page`: NoPage or the browser the page was opened in
  topen,        \* task t: its page context is open
  tres,         \* task t: what fetchContentViaPuppeteer returned
  tstages,      \* task t: pipeline stages run so far, in order
  tcaught,      \* task t: an error reached the catch of fetchContentViaPuppeteer
  tthrew,       \* task t: fetchContentViaPuppeteer raised to the limited task
  terr,         \* task t: the stages that failed inside (extractor, normalizer)
  tstart,       \* task t: urlStartTime / startTime
  tmark,        \* task t: start time of the stage in progress
  tl,           \* task t: local `timings` of fetchContentViaPuppeteer
  cpc,          \* close(): position
  ctarget,      \* close(): the browser whose close() is awaited
  cmark,        \* close(): startTime
  ncloses,      \* close() calls made so far
  cout,         \* outcome of the last close() call
  xdoc,         \* extractMainContent: the document of the page
  xout,         \* extractMainContent: what it returned
  hpc,          \* handleCommonObstacles: where the call is
  hsel,         \* handleCommonObstacles: position of the selector being queried
  htried,       \* selectors whose query was answered
  hclicked,     \* selectors whose first match was clicked
  hfailed,      \* selectors whose click was rejected
  hfallback,    \* the pass over the button-like elements ran
  herr,         \* what the outer catch caught
  hraised,      \* the call rejected
  mdin,         \* cleanAndConvertToMarkdown: the text turndown produced
  mdout,        \* cleanAndConvertToMarkdown: the text after the clean-up
  ppc,          \* trimPrompt: "idle", "run" (an invocation is about to run), "done"
  porig,        \* trimPrompt: length of the prompt of the outermost call
  pdens,        \* trimPrompt: characters per token of the prompt's text
  pctx,         \* trimPrompt: contextSize
  pprompt,      \* trimPrompt: length of the prompt of the current invocation
  pdepth,       \* trimPrompt: recursive calls made so far
  pret          \* trimPrompt: length of the string returned

vars == <<browser, alive, launched, activeCount, queue, now, timings, cur,
          apiKey, sopt, sorganic, ssent, sclient,
          spc, sres, sstart, sdur, cstart, resp, slast,
          tpc, tbrowser, tpage, topen, tres, tstages, tcaught, tthrew, terr,
          tstart, tmark, tl,
          cpc, ctarget, cmark, ncloses, cout,
          xdoc, xout,
          hpc, hsel, htried, hclicked, hfailed, hfallback, herr, hraised,
          mdin, mdout,
          ppc, porig, pdens, pctx, pprompt, pdepth, pret>>

browserVars == <<browser, alive, launched>>
limitVars   == <<activeCount, queue>>
serperVars  == <<apiKey, sopt, sorganic, ssent, sclient>>
searchVars  == <<serperVars, spc, sres, sstart, sdur, cstart, resp, slast>>
taskVars    == <<tpc, tbrowser, tpage, topen, tres, tstages, tcaught, tthrew, terr,
                 tstart, tmark, tl>>
closeVars   == <<cpc, ctarget, cmark, ncloses, cout>>
ledgerVars  == <<timings, cur>>
obstacleVars == <<hpc, hsel, htried, hclicked, hfailed, hfallback, herr, hraised>>
textVars    == <<mdin, mdout>>
promptVars  == <<ppc, porig, pdens, pctx, pprompt, pdepth, pret>>
pageVars    == <<xdoc, xout, obstacleVars, textVars, promptVars>>
appVars     == <<browserVars, limitVars, ledgerVars, now, searchVars, taskVars, closeVars>>

\* ----------------------------------------------------------------- helpers
Min(a, b) == IF a <= b THEN a ELSE b

\* A timing ledger is a JS object used as a map: key -> duration.
EmptyLedger == [k \in {} |-> 0]
Put(l, k, v) == [x \in (DOMAIN l) \cup {k} |-> IF x = k THEN v ELSE l[x]]

\* The URL the upstream API links the result of rank i to.
Url(i) == <<"url", i>>

\* url.substring(0, 20): URLs 1 and 2 agree on their first 20 characters
\* (two pages of one site), URL 3 differs from both, and so on.
Prefix(u) == (u[2] + 1) \div 2

\* The query string of the s-th search() call.
Query(s) == s

\* What the upstream API can answer: up to m organic results, each mapped to a
\* SearchItem {url, title, snippet}; the result of rank i links to URL i.
Item(u, i) == [url |-> u, title |-> <<"title", i>>, snippet |-> <<"snippet", i>>]
OrganicLists(m) == { [i \in 1..n |-> Item(Url(i), i)] : n \in 0..m }

\* `{}`, the empty fetch result.
EmptyResult == [html |-> Absent, markdown |-> Absent]
\* `content.markdown || content.html` reads both absent and '' as false.
Falsy(x) == x \in {Absent, EmptyStr}

\* page.content() / extractMainContent / cleanAndConvertToMarkdown, by what
\* they return: the main-content markup of the page at u, or the full HTML
\* when the extractor failed; the markdown of that markup, or '' when the
\* normalizer failed.
Html(kind, u)     == <<"html", kind, u[2]>>
Markdown(kind, u) == <<"md", kind, u[2]>>

NoResp == [kind |-> "pending", query |-> 0, data |-> <<>>,
           total |-> 0, search |-> 0, content |-> 0, details |-> 0]

\* The `options` of a search() call: without limit, or with limit = value.
NoOption == [given |-> FALSE, value |-> 0]
Options(maxl) == {NoOption} \cup {[given |-> TRUE, value |-> v] : v \in 0..maxl}

\* getSerperSearchResults has not ended.
NoClient == [how |-> "none", threw |-> FALSE]

TasksOf(s) == {t \in Tasks : t[1] = s /\ t[2] <= Len(sres[s])}
UrlOf(t)   == sres[t[1]][t[2]].url

\* ------------------------------------------------------------------- Init
InitApp ==
  /\ browser = NoBrowser /\ alive = {} /\ launched = 0
  /\ activeCount = 0 /\ queue = <<>>
  /\ now = 0
  /\ timings = [o \in {0} \cup Searches |-> EmptyLedger]
  /\ cur = 0
  /\ apiKey \in BOOLEAN
  /\ sopt = [s \in Searches |-> NoOption]
  /\ sorganic = [s \in Searches |-> 0]
  /\ ssent = [s \in Searches |-> FALSE]
  /\ sclient = [s \in Searches |-> NoClient]
  /\ spc = [s \in Searches |-> "idle"]
  /\ sres = [s \in Searches |-> <<>>]
  /\ sstart = [s \in Searches |-> 0]
  /\ sdur = [s \in Searches |-> 0]
  /\ cstart = [s \in Searches |-> 0]
  /\ resp = [s \in Searches |-> NoResp]
  /\ slast = [s \in Searches |-> 0]
  /\ tpc = [t \in Tasks |-> "none"]
  /\ tbrowser = [t \in Tasks |-> NoBrowser]
  /\ tpage = [t \in Tasks |-> NoPage]
  /\ topen = [t \in Tasks |-> FALSE]
  /\ tres = [t \in Tasks |-> EmptyResult]
  /\ tstages = [t \in Tasks |-> <<>>]
  /\ tcaught = [t \in Tasks |-> FALSE]
  /\ tthrew = [t \in Tasks |-> FALSE]
  /\ terr = [t \in Tasks |-> {}]
  /\ tstart = [t \in Tasks |-> 0]
  /\ tmark = [t \in Tasks |-> 0]
  /\ tl = [t \in Tasks |-> EmptyLedger]
  /\ cpc = "idle" /\ ctarget = NoBrowser /\ cmark = 0 /\ ncloses = 0
  /\ cout = "none"

\* A document without a body and without any element the selectors match.
BlankDoc == [hasBody |-> FALSE, bodyLen |-> 0, removable |-> 0, els |-> <<>>]
NoOutput == [kind |-> "none", selector |-> 0, removed |-> 0, live |-> 0, evaluated |-> FALSE]

InitPage == xdoc = BlankDoc /\ xout = NoOutput

\* No call of handleCommonObstacles yet.
InitObstacles ==
  /\ hpc = "idle"
  /\ hsel = 0
  /\ htried = {}
  /\ hclicked = {}
  /\ hfailed = {}
  /\ hfallback = FALSE
  /\ herr = "none"
  /\ hraised = FALSE

\* No text converted yet.
NoText == [done |-> FALSE, text |-> <<>>]
InitText == mdin = <<>> /\ mdout = NoText

\* No call of trimPrompt yet.
InitPrompt ==
  /\ ppc = "idle"
  /\ porig = 0
  /\ pdens = 1
  /\ pctx = 1
  /\ pprompt = 0
  /\ pdepth = 0
  /\ pret = 0

Init == InitApp /\ InitPage /\ InitObstacles /\ InitText /\ InitPrompt

\* ------------------------------------------------------- browser session
\* getBrowser, up to its first await: `if (!this.browser)` decides between
\* awaiting puppeteer.launch and returning the existing session.
StartPc(b) == IF b = NoBrowser THEN "launch" ELSE "newpage"

\* ----------------------------------------------------------------- p-limit
\* pLimit(PUPPETEER_CONCURRENCY): how many of the qlen queued tasks are
\* started when `active` tasks are running.
SlotsUnlimited(active, qlen) == qlen    \* variant: every queued task is started
Slots(active, qlen) == Min(qlen, PUPPETEER_CONCURRENCY - active)

\* The slots a settling limited task gives back: its promise is fulfilled
\* whether the fetch caught an error or not, and p-limit then takes the next
\* task from the queue.
ReleaseOnSuccess(caught) == IF caught THEN 0 ELSE 1   \* variant: a failed fetch keeps its slot
Release(caught) == 1

\* The tasks in S start: each runs synchronously up to its first await, which
\* is inside getBrowser (launch) or, with a session at hand, browser.newPage().
StartTpc(base, S) == [t \in Tasks |-> IF t \in S THEN StartPc(browser) ELSE base[t]]
StartTbrowser(S) ==
  [t \in Tasks |-> IF t \in S /\ browser # NoBrowser THEN browser ELSE tbrowser[t]]
StartClock(f, S) == [t \in Tasks |-> IF t \in S THEN now ELSE f[t]]
StartTl(S) ==
  [t \in Tasks |-> IF t \in S
                   THEN (IF browser # NoBrowser
                         THEN Put(EmptyLedger, "browser_get", 0)
                         ELSE EmptyLedger)
                   ELSE tl[t]]

\* ------------------------------------------------------------------ search
\* `limit = options.limit || MAX_RESULTS`: undefined and 0 are both falsy.
LimitOf(opt) == IF opt.given /\ opt.value # 0 THEN opt.value ELSE MAX_RESULTS

\* getSerperSearchResults, up to its first await: without an API key it
\* returns [] at once, else it sends the request with axios.
SendsRequest(key) == key

\* search(query, {limit: opt}): resets the ledger and calls the Search Client.
SearchCall(s, opt) ==
  /\ spc[s] = "idle"
  /\ \A r \in Searches : r < s => spc[r] # "idle"
  /\ spc' = [spc EXCEPT ![s] = "serper"]
  /\ sstart' = [sstart EXCEPT ![s] = now]
  /\ sopt' = [sopt EXCEPT ![s] = opt]
  /\ ssent' = [ssent EXCEPT ![s] = SendsRequest(apiKey)]
  /\ cur' = s
  /\ timings' = [timings EXCEPT ![s] = EmptyLedger]
  /\ UNCHANGED <<browserVars, limitVars, now, pageVars, apiKey, sorganic, sclient,
                 sres, sdur, cstart, resp, slast, taskVars, closeVars>>

\* The response of a search whose upstream search gave nothing.
SearchEmptyResponseTimed(s, dur) ==     \* variant: content is the elapsed time
  [kind |-> "returned", query |-> Query(s), data |-> <<>>,
   total |-> now - sstart[s], search |-> dur, content |-> now - sstart[s],
   details |-> cur]
SearchEmptyResponse(s, dur) ==
  [kind |-> "returned", query |-> Query(s), data |-> <<>>,
   total |-> now - sstart[s], search |-> dur, content |-> 0, details |-> cur]

\* The catch of getSerperSearchResults: log, `return []`.
SerperOnErrorRethrow == [items |-> <<>>, threw |-> TRUE]   \* variant: `throw error`
SerperOnError == [items |-> <<>>, threw |-> FALSE]

\* `.slice(0, limit)` of the mapped organic results.
SliceTo(seq, n) == SubSeq(seq, 1, Min(Len(seq), n))

\* `this.timings[key] || 0`
Get(l, k) == IF k \in DOMAIN l THEN l[k] ELSE 0

\* The catch of search: a well-formed response with empty data.
SearchCatchResponse(s, l) ==
  [kind |-> "returned", query |-> Query(s), data |-> <<>>,
   total |-> now - sstart[s], search |-> Get(l, <<"search_api">>),
   content |-> Get(l, <<"content_fetch_total">>), details |-> cur]

\* getSerperSearchResults ends and search goes on.  outcome: "nokey" (no API
\* key: [] without a request), "error" (the request failed: caught, []),
\* "nodata" (a response without data: []), "parse" (a response whose organic
\* field cannot be mapped: caught, []), "ok" (`items` are the mapped organic
\* results, cut to `limit`).  search returns at once on zero results, else
\* fans the fetch tasks out under the limiter and awaits Promise.all.
SerperDone(s, outcome, items) ==
  /\ spc[s] = "serper"
  /\ (outcome = "nokey") <=> ~ssent[s]
  /\ outcome # "ok" => items = <<>>
  /\ LET dur     == now - sstart[s]
         failed  == outcome \in {"error", "parse"}
         threw   == failed /\ SerperOnError.threw
         results == IF outcome = "ok" THEN SliceTo(items, LimitOf(sopt[s]))
                    ELSE IF failed THEN SerperOnError.items ELSE <<>>
         l1   == IF outcome \in {"nodata", "parse", "ok"}
                 THEN Put(timings[cur], <<"serper_api_request">>, dur)
                 ELSE timings[cur]
         l2   == IF outcome = "ok" THEN Put(l1, <<"serper_processing">>, 0) ELSE l1
         l3   == Put(l2, <<"search_api">>, dur)
         n    == Len(results)
         newq == queue \o [i \in 1..n |-> <<s, i>>]
         k    == Slots(activeCount, Len(newq))
         S    == {newq[j] : j \in 1..k}
     IN /\ sclient' = [sclient EXCEPT ![s] = [how |-> outcome, threw |-> threw]]
        /\ sorganic' = [sorganic EXCEPT ![s] = Len(items)]
        /\ sres' = [sres EXCEPT ![s] = results]
        /\ IF threw
           THEN /\ timings' = [timings EXCEPT ![cur] = l2]
                /\ spc' = [spc EXCEPT ![s] = "done"]
                /\ resp' = [resp EXCEPT ![s] = SearchCatchResponse(s, l2)]
                /\ UNCHANGED <<limitVars, sdur, cstart, taskVars>>
           ELSE IF n = 0
           THEN /\ timings' = [timings EXCEPT ![cur] = l3]
                /\ sdur' = [sdur EXCEPT ![s] = dur]
                /\ spc' = [spc EXCEPT ![s] = "done"]
                /\ resp' = [resp EXCEPT ![s] = SearchEmptyResponse(s, dur)]
                /\ UNCHANGED <<limitVars, cstart, taskVars>>
           ELSE /\ timings' = [timings EXCEPT ![cur] = l3]
                /\ sdur' = [sdur EXCEPT ![s] = dur]
                /\ spc' = [spc EXCEPT ![s] = "await"]
                /\ cstart' = [cstart EXCEPT ![s] = now]
                /\ queue' = SubSeq(newq, k + 1, Len(newq))
                /\ activeCount' = activeCount + k
                /\ tpc' = StartTpc([t \in Tasks |->
                                     IF t[1] = s /\ t[2] <= n THEN "queued" ELSE tpc[t]], S)
                /\ tbrowser' = StartTbrowser(S)
                /\ tstart' = StartClock(tstart, S)
                /\ tmark' = StartClock(tmark, S)
                /\ tl' = StartTl(S)
                /\ UNCHANGED <<resp, tpage, terr, topen, tres, tstages, tcaught, tthrew>>
  /\ UNCHANGED <<browserVars, now, pageVars, cur, apiKey, sopt, ssent, sstart, slast, closeVars>>

\* ------------------------------------------------------ search, continued
\* `{...result, ...contents[index]}`: the fetch result only has the keys html
\* and markdown, and has neither when it is {}.
MergeContentOnly(result, content) ==    \* variant: `{...contents[index]}`
  [url |-> Absent, title |-> Absent, snippet |-> Absent,
   html |-> content.html, markdown |-> content.markdown]
Merge(result, content) ==
  [url |-> result.url, title |-> result.title, snippet |-> result.snippet,
   html |-> content.html, markdown |-> content.markdown]

\* lodash compact drops the falsy elements of an array; every element of data
\* is an object, and an object is truthy.
Truthy(item) == TRUE
Compact(data) == SelectSeq(data, Truthy)

\* `contents = await Promise.all(contentPromises)`: the values in the order of
\* the promises, whatever the order in which they were fulfilled; contents[i]
\* is the value of the task of rank i, of n.
ContentAtReversed(contents, s, i, n) == contents[<<s, n + 1 - i>>]   \* variant
ContentAt(contents, s, i, n) == contents[<<s, i>>]

\* The merged response of a search whose fetches are all fulfilled.
SearchResponseSinceFetch(s, contents) ==   \* variant: total counted from contentStartTime
  [kind |-> "returned", query |-> Query(s),
   data |-> Compact([i \in 1..Len(sres[s]) |->
                       Merge(sres[s][i], ContentAt(contents, s, i, Len(sres[s])))]),
   total |-> now - cstart[s], search |-> sdur[s], content |-> now - cstart[s],
   details |-> cur]
SearchResponseOf(s, contents) ==
  [kind |-> "returned", query |-> Query(s),
   data |-> Compact([i \in 1..Len(sres[s]) |->
                       Merge(sres[s][i], ContentAt(contents, s, i, Len(sres[s])))]),
   total |-> now - sstart[s], search |-> sdur[s], content |-> now - cstart[s],
   details |-> cur]

\* ------------------------------------------------- fetchContentViaPuppeteer
\* The catch of fetchContentViaPuppeteer: log, `return {}`.
FetchOnErrorRethrow == [res |-> EmptyResult, threw |-> TRUE]   \* variant: `throw error`
FetchOnError == [res |-> EmptyResult, threw |-> FALSE]

\* The finally of fetchContentViaPuppeteer: `if (page) await page.close()`.
FinallySkip(page) == "ret"              \* variant: the page is never closed
FinallyPc(page) == IF page # NoPage THEN "pclose" ELSE "ret"

\* The catch around page.goto: log a warning and go on with the pipeline.
OnNavErrorAbort == "abort"              \* variant: the inner catch rethrows
OnNavError == "continue"

\* The locals of the tasks in D go out of scope.
Drop(f, D, v) == [t \in Tasks |-> IF t \in D THEN v ELSE f[t]]

\* The variables a settling task writes.
flowVars == <<activeCount, queue, timings, spc, resp, slast,
              tpc, tbrowser, tstages, tstart, tmark, tl>>

\* fetchContentViaPuppeteer returns to the limited task of t (tres' and
\* tthrew' say with what), which records url_<index> and settles; p-limit
\* frees the slot and starts the next queued task; Promise.all settles when
\* this was the last task of the search (or rejects at once, into the catch
\* of search, when the task rejected).
Settle(t) ==
  LET s    == t[1]
      free == Release(tcaught'[t])
      k    == IF free = 0 THEN 0 ELSE Slots(activeCount - free, Len(queue))
      S    == {queue[j] : j \in 1..k}
      tpc1 == [tpc EXCEPT ![t] = "done"]
      l1   == IF tthrew'[t] THEN timings[cur]
              ELSE Put(timings[cur], <<"url", t[2]>>, now - tstart[t])
      last == \A x \in TasksOf(s) : tpc1[x] = "done"
  IN /\ slast' = [slast EXCEPT ![s] = t[2]]
     /\ queue' = SubSeq(queue, k + 1, Len(queue))
     /\ activeCount' = activeCount - free + k
     /\ tpc' = StartTpc(tpc1, S)
     /\ tbrowser' = Drop(StartTbrowser(S), {t}, NoBrowser)
     /\ tstart' = Drop(StartClock(tstart, S), {t}, 0)
     /\ tmark' = Drop(StartClock(tmark, S), {t}, 0)
     /\ tl' = Drop(StartTl(S), {t}, EmptyLedger)
     /\ tstages' = Drop(tstages, {t}, <<>>)
     /\ IF spc[s] = "await" /\ tthrew'[t]
        THEN /\ spc' = [spc EXCEPT ![s] = "done"]
             /\ resp' = [resp EXCEPT ![s] = SearchCatchResponse(s, l1)]
             /\ timings' = [timings EXCEPT ![cur] = l1]
        ELSE IF spc[s] = "await" /\ last
        THEN /\ spc' = [spc EXCEPT ![s] = "done"]
             /\ resp' = [resp EXCEPT ![s] = SearchResponseOf(s, tres')]
             /\ timings' = [timings EXCEPT ![cur] =
                              Put(l1, <<"content_fetch_total">>, now - cstart[s])]
        ELSE /\ timings' = [timings EXCEPT ![cur] = l1]
             /\ UNCHANGED <<spc, resp>>

\* An awaited operation of task t rejected inside the try: the catch makes
\* the result, the finally closes the page if there is one.
Caught(t, local, stages) ==
  /\ tcaught' = [tcaught EXCEPT ![t] = TRUE]
  /\ tres' = [tres EXCEPT ![t] = FetchOnError.res]
  /\ tthrew' = [tthrew EXCEPT ![t] = FetchOnError.threw]
  /\ IF FinallyPc(tpage[t]) = "pclose"
     THEN /\ tpc' = [tpc EXCEPT ![t] = "pclose"]
          /\ tl' = [tl EXCEPT ![t] = local]
          /\ tstages' = [tstages EXCEPT ![t] = stages]
          /\ UNCHANGED <<activeCount, queue, timings, spc, resp, slast,
                         tbrowser, tstart, tmark>>
     ELSE Settle(t)

\* The try went through: the result is returned through the finally.
Returned(t, res, local, stages, ledger) ==
  /\ tres' = [tres EXCEPT ![t] = res]
  /\ UNCHANGED <<tcaught, tthrew>>
  /\ IF FinallyPc(tpage[t]) = "pclose"
     THEN /\ tpc' = [tpc EXCEPT ![t] = "pclose"]
          /\ tl' = [tl EXCEPT ![t] = local]
          /\ tstages' = [tstages EXCEPT ![t] = stages]
          /\ timings' = [timings EXCEPT ![cur] = ledger]
          /\ UNCHANGED <<activeCount, queue, spc, resp, slast,
                         tbrowser, tstart, tmark>>
     ELSE Settle(t)

\* `this.browser = await puppeteer.launch(...)` settles; on success getBrowser
\* records browser_launch and returns this.browser, and the fetch calls
\* browser.newPage().
LaunchDone(t, ok) ==
  /\ tpc[t] = "launch"
  /\ IF ok
     THEN /\ launched' = launched + 1
          /\ alive' = alive \cup {launched + 1}
          /\ browser' = launched + 1
          /\ timings' = [timings EXCEPT ![cur] =
                           Put(@, <<"browser_launch">>, now - tstart[t])]
          /\ tbrowser' = [tbrowser EXCEPT ![t] = launched + 1]
          /\ tl' = [tl EXCEPT ![t] = Put(@, "browser_get", now - tmark[t])]
          /\ tmark' = [tmark EXCEPT ![t] = now]
          /\ tpc' = [tpc EXCEPT ![t] = "newpage"]
          /\ UNCHANGED <<activeCount, queue, spc, resp, slast, tpage, terr, tstages,
                         tstart, tres, tcaught, tthrew>>
     ELSE /\ Caught(t, tl[t], tstages[t])
          /\ UNCHANGED <<browserVars, tpage, terr>>
  /\ UNCHANGED <<now, pageVars, cur, sres, sstart, serperVars, sdur, cstart, topen, closeVars>>

\* `page = await browser.newPage()` settles; it can only succeed on a running
\* browser.
NewPageDone(t, ok) ==
  /\ tpc[t] = "newpage"
  /\ ok => tbrowser[t] \in alive
  /\ IF ok
     THEN /\ tpage' = [tpage EXCEPT ![t] = tbrowser[t]]
          /\ topen' = [topen EXCEPT ![t] = TRUE]
          /\ tl' = [tl EXCEPT ![t] = Put(@, "page_creation", now - tmark[t])]
          /\ tmark' = [tmark EXCEPT ![t] = now]
          /\ tpc' = [tpc EXCEPT ![t] = "setup"]
          /\ UNCHANGED <<activeCount, queue, timings, spc, resp, slast, tbrowser,
                         tstages, tstart, tres, tcaught, tthrew, terr>>
     ELSE /\ Caught(t, tl[t], tstages[t])
          /\ UNCHANGED <<topen, tpage, terr>>
  /\ UNCHANGED <<browserVars, now, pageVars, cur, sres, sstart, serperVars, sdur, cstart, closeVars>>

\* setUserAgent, setViewport, setDefaultNavigationTimeout and
\* setRequestInterception settle (one rejection of the four is enough to
\* fail); the request handler is installed and page.goto is called.
SetupDone(t, ok) ==
  /\ tpc[t] = "setup"
  /\ ok => topen[t]
  /\ IF ok
     THEN /\ tl' = [tl EXCEPT ![t] =
                      Put(Put(@, "page_setup", now - tmark[t]), "intercept_setup", 0)]
          /\ tmark' = [tmark EXCEPT ![t] = now]
          /\ tpc' = [tpc EXCEPT ![t] = "nav"]
          /\ UNCHANGED <<activeCount, queue, timings, spc, resp, slast, tbrowser,
                         tstages, tstart, tres, tcaught, tthrew>>
     ELSE Caught(t, tl[t], tstages[t])
  /\ UNCHANGED <<browserVars, now, pageVars, cur, sres, sstart, serperVars, sdur, cstart, topen, tpage, terr, closeVars>>

\* page.goto and the 2 s settle delay are over, or one of them rejected
\* (timeout, DNS failure, page gone): the inner catch records the error and
\* the pipeline goes on.  Then handleCommonObstacles runs to its end (it
\* catches whatever its page calls throw) and page.content() is called.
NavDone(t, ok) ==
  /\ tpc[t] = "nav"
  /\ ok => topen[t]
  /\ LET local  == Put(tl[t], IF ok THEN "navigation" ELSE "navigation_error",
                       now - tmark[t])
         stages == <<IF ok THEN "nav" ELSE "nav_error">>
     IN IF ok \/ OnNavError = "continue"
        THEN /\ tl' = [tl EXCEPT ![t] = Put(local, "obstacles_handling", 0)]
             /\ tmark' = [tmark EXCEPT ![t] = now]
             /\ tstages' = [tstages EXCEPT ![t] = Append(stages, "obstacles")]
             /\ tpc' = [tpc EXCEPT ![t] = "content"]
             /\ UNCHANGED <<activeCount, queue, timings, spc, resp, slast, tbrowser,
                            tstart, tres, tcaught, tthrew>>
        ELSE Caught(t, local, stages)
  /\ UNCHANGED <<browserVars, now, pageVars, cur, sres, sstart, serperVars, sdur, cstart, topen, tpage, terr,
                 closeVars>>

\* The per-URL entries of the local timings go into this.timings under
\* `${url.substring(0, 20)}_${key}`.
Publish(l, u, local) ==
  [x \in (DOMAIN l) \cup {<<"pfx", Prefix(u), k>> : k \in DOMAIN local} |->
     IF x \in {<<"pfx", Prefix(u), k>> : k \in DOMAIN local} THEN local[x[3]] ELSE l[x]]

\* The catch of extractMainContent: log, `return fullHtml`.
ExtractOnErrorRethrow(fullHtml) == [html |-> fullHtml, threw |-> TRUE]   \* variant: `throw error`
ExtractOnError(fullHtml) == [html |-> fullHtml, threw |-> FALSE]

\* The catch of cleanAndConvertToMarkdown: log, `return ''`.
NormalizeOnError == [markdown |-> EmptyStr, threw |-> FALSE]

\* `html = await page.content()` settles; when it rejects the outer catch
\* takes over.  Otherwise extractMainContent runs (exOk: the page evaluation
\* gave the main content; else its catch took over), then
\* cleanAndConvertToMarkdown (mdOk: it converted; else its catch took over),
\* the timings are published and the result is returned through the finally.
ContentDone(t, ok, exOk, mdOk) ==
  /\ tpc[t] = "content"
  /\ ok => topen[t]
  /\ exOk => ok
  /\ mdOk => ok
  /\ IF ok
     THEN LET u     == UrlOf(t)
              ex    == IF exOk THEN [html |-> Html("main", u), threw |-> FALSE]
                       ELSE ExtractOnError(Html("full", u))
              md    == IF mdOk
                       THEN [markdown |-> Markdown(IF exOk THEN "main" ELSE "full", u),
                             threw |-> FALSE]
                       ELSE NormalizeOnError
              local == Put(Put(tl[t], "content_extraction", now - tmark[t]),
                           "markdown_conversion", 0)
          IN IF ex.threw
             THEN /\ terr' = [terr EXCEPT ![t] = {"extract"}]
                  /\ Caught(t, tl[t], tstages[t] \o <<"content", "extract">>)
             ELSE /\ terr' = [terr EXCEPT ![t] =
                                (IF exOk THEN {} ELSE {"extract"})
                                  \cup (IF mdOk THEN {} ELSE {"normalize"})]
                  /\ IF md.threw
                     THEN Caught(t, tl[t],
                                 tstages[t] \o <<"content", "extract", "normalize">>)
                     ELSE Returned(t,
                                   [html |-> ex.html, markdown |-> md.markdown],
                                   local,
                                   tstages[t] \o <<"content", "extract", "normalize">>,
                                   Publish(timings[cur], u, local))
     ELSE /\ Caught(t, tl[t], tstages[t])
          /\ UNCHANGED terr
  /\ UNCHANGED <<browserVars, now, pageVars, cur, sres, sstart, serperVars, sdur, cstart, topen, tpage, closeVars>>

\* The browsers the finally closes along with the page of browser b: none.
ClosedWithPageBrowser(b) == {b}         \* variant: `await browser.close()` too
ClosedWithPage(b) == {}

\* `await page.close().catch(() => {})` settles: the page context is closed
\* (close() rejects only on a page that is already gone with its browser, and
\* the rejection is swallowed), and fetchContentViaPuppeteer returns.
PageCloseDone(t) ==
  /\ tpc[t] = "pclose"
  /\ topen' = [topen EXCEPT ![t] = FALSE]
  /\ alive' = alive \ ClosedWithPage(tpage[t])
  /\ UNCHANGED <<tres, tcaught, tthrew, tpage, terr>>
  /\ Settle(t)
  /\ UNCHANGED <<browser, launched, now, pageVars, cur, sres, sstart, serperVars, sdur, cstart, closeVars>>

\* ------------------------------------------------------------------- close
\* `if (this.browser)` of close().
CloseNoGuard(b) == TRUE                 \* variant: no `if (this.browser)`
CloseHasSession(b) == b # NoBrowser

\* close() is called: with no session it returns at once, else it awaits
\* this.browser.close().
CloseCall(maxc) ==
  /\ cpc = "idle"
  /\ ncloses < maxc
  /\ ncloses' = ncloses + 1
  /\ cmark' = now
  /\ IF ~CloseHasSession(browser)
     THEN /\ cout' = "noop"
          /\ UNCHANGED <<cpc, ctarget>>
     ELSE IF browser = NoBrowser
     THEN /\ cout' = "raised"     \* null.close(): TypeError
          /\ UNCHANGED <<cpc, ctarget>>
     ELSE /\ cpc' = "closing"
          /\ ctarget' = browser
          /\ cout' = "pending"
  /\ UNCHANGED <<browserVars, limitVars, now, pageVars, ledgerVars, searchVars, taskVars>>

\* The pages of browser b go away with it.
PagesWithout(b) == [t \in Tasks |-> topen[t] /\ tpage[t] # b]

\* `await this.browser.close()` settles.  Fulfilled: the process and its
\* pages are gone, this.browser = null, browser_close is recorded.  Rejected:
\* close() raises to its caller and this.browser keeps the handle; the process
\* may or may not have exited.
CloseDone(ok, exited) ==
  /\ cpc = "closing"
  /\ ok => exited
  /\ cpc' = "idle"
  /\ IF exited
     THEN /\ alive' = alive \ {ctarget}
          /\ topen' = PagesWithout(ctarget)
     ELSE UNCHANGED <<alive, topen>>
  /\ IF ok
     THEN /\ browser' = NoBrowser
          /\ timings' = [timings EXCEPT ![cur] =
                           Put(@, <<"browser_close">>, now - cmark)]
          /\ cout' = "closed"
     ELSE /\ cout' = "raised"
          /\ UNCHANGED <<browser, timings>>
  /\ UNCHANGED <<launched, limitVars, now, pageVars, cur, searchVars, tpc, tbrowser, tpage, terr,
                 tres, tstages, tcaught, tthrew, tstart, tmark, tl,
                 ctarget, cmark, ncloses>>

\* ------------------------------------------------------------------- clock
\* Time passes between two events.
Tick(maxt) ==
  /\ now < maxt
  /\ now' = now + 1
  /\ UNCHANGED <<browserVars, limitVars, ledgerVars, searchVars, taskVars, closeVars,
                 pageVars>>

\* ------------------------------------------------------------ specification
Outcomes == {"nokey", "error", "nodata", "parse", "ok"}

\* search() calls by the searches in SS, with the options in L.
SearchCalls(SS, L) == \E s \in SS, opt \in L : SearchCall(s, opt)

\* The upstream API answering with up to m organic results, and the fetch
\* tasks fanned out; F holds the outcomes of the awaited puppeteer calls
\* (TRUE: fulfilled, FALSE: rejected), X those of the extractor and of the
\* normalizer (TRUE: fine, FALSE: internal error).
PipelineStep(SS, m, F, X) ==
  \/ \E s \in SS, o \in Outcomes, items \in OrganicLists(m) : SerperDone(s, o, items)
  \/ \E t \in Tasks, ok \in F : LaunchDone(t, ok)
  \/ \E t \in Tasks, ok \in F : NewPageDone(t, ok)
  \/ \E t \in Tasks, ok \in F : SetupDone(t, ok)
  \/ \E t \in Tasks, ok \in F : NavDone(t, ok)
  \/ \E t \in Tasks, ok \in F, exOk \in X, mdOk \in X :
       ContentDone(t, ok, exOk /\ ok, mdOk /\ ok)
  \/ \E t \in Tasks : PageCloseDone(t)

SearchStep(SS, m, X) == SearchCalls(SS, {NoOption}) \/ PipelineStep(SS, m, BOOLEAN, X)

\* close() calls by the owner of the instance, at any moment.
CloseStep(maxc) ==
  \/ CloseCall(maxc)
  \/ \E ok \in BOOLEAN, exited \in BOOLEAN : CloseDone(ok, exited)

\* One search() call and its fetches under the limiter, extractor and
\* normalizer working.
Next == SearchStep({1}, MaxOrganic, {TRUE})
Spec == Init /\ [][Next]_vars

\* One search() call and its fetches, every stage failing or not.
NextFetch == SearchStep({1}, FetchOrganic, BOOLEAN)
SpecFetch == Init /\ [][NextFetch]_vars

\* One search() call and its fetches, with close() called at any moment.
NextClose == SearchStep({1}, CloseOrganic, {TRUE}) \/ CloseStep(MaxCloses)
SpecClose == Init /\ [][NextClose]_vars

\* One search() call with or without options.limit, the API answering with
\* more results than asked for or not, every puppeteer call fulfilled.
NextLimit ==
  SearchCalls({1}, Options(MaxLimit)) \/ PipelineStep({1}, LimitOrganic, {TRUE}, {TRUE})
SpecLimit == Init /\ [][NextLimit]_vars

\* One search() call and its fetches, every awaited operation settling in the
\* end: the request has a timeout, navigation has one, and the event loop runs
\* every continuation that is ready.
NextLive == SearchCalls({1}, {NoOption}) \/ PipelineStep({1}, LiveOrganic, BOOLEAN, {TRUE})
SpecLive ==
  Init /\ [][NextLive]_vars /\ WF_vars(PipelineStep({1}, LiveOrganic, BOOLEAN, {TRUE}))

\* No search() call is in progress.
Quiet == \A s \in Searches : spc[s] \in {"idle", "done"}

\* The default lifecycle: search() calls one after the other, and close()
\* called, and left to finish, only while no search is running.
NextLife ==
  \/ Quiet /\ cpc = "idle" /\ SearchCalls(Searches, {NoOption})
  \/ PipelineStep(Searches, LifeOrganic, BOOLEAN, {TRUE})
  \/ Quiet /\ CloseStep(LifeCloses)
SpecLife == Init /\ [][NextLife]_vars

\* One search() call with concurrent fetches, and close() called, and left to
\* finish, only while no search is running.
NextShutdown ==
  \/ SearchStep({1}, CloseOrganic, {TRUE})
  \/ Quiet /\ CloseStep(MaxCloses)
SpecShutdown == Init /\ [][NextShutdown]_vars

\* One search() call and its fetches, with the clock running.
NextTimed == SearchStep({1}, TimedOrganic, {TRUE}) \/ Tick(MaxTime)
SpecTimed == Init /\ [][NextTimed]_vars

\* -------------------------------------------------------- extractMainContent

\* The content selectors, by their position in the priority list.
NumSelectors  == 19
Selectors     == 1..NumSelectors
MinTextLength == 300
\* The share of the body's text an element must exceed, as a fraction.
RatioNum      == 3
RatioDen      == 10

\* Text lengths of matched elements and of the body: on both sides of the
\* length threshold, and on both sides of the share threshold and exactly on it.
TextLengths     == {300, 301, 600, 900}
BodyLengths     == {0, 1000, 2000}
RemovableCounts == {0, 2}

\* The sets of at most k selectors.
RECURSIVE SelectorSets(_)
SelectorSets(k) ==
  IF k = 0 THEN {{}}
  ELSE LET P == SelectorSets(k - 1) IN P \cup {S \cup {i} : S \in P, i \in Selectors}

\* The body of a document: none, or its text length and the number of its
\* elements the cleaning removes.
Bodies ==
  {[hasBody |-> FALSE, bodyLen |-> 0, removable |-> 0]}
  \cup {[hasBody |-> TRUE, bodyLen |-> b, removable |-> r] :
          b \in BodyLengths, r \in RemovableCounts}

\* els[i] is the text length of the first element selector i matches.
Document(body, els) ==
  [hasBody |-> body.hasBody, bodyLen |-> body.bodyLen, removable |-> body.removable,
   els |-> els]

\* document.body?.textContent?.length || element.textContent.length
RatioBase(doc, len) == IF doc.hasBody /\ doc.bodyLen # 0 THEN doc.bodyLen ELSE len

GoodElementAtLeast(doc, i) ==
  /\ i \in DOMAIN doc.els
  /\ doc.els[i] > MinTextLength
  /\ RatioDen * doc.els[i] >= RatioNum * RatioBase(doc, doc.els[i])

\* element.textContent.length > 300 and elementTextRatio > 0.3
GoodElement(doc, i) ==
  /\ i \in DOMAIN doc.els
  /\ doc.els[i] > MinTextLength
  /\ RatioDen * doc.els[i] > RatioNum * RatioBase(doc, doc.els[i])

\* What the function evaluated in the page returns: the first good element, or
\* the clone of the body without its removable elements; without a body the
\* last resort reads document.body.outerHTML and throws. live is the number
\* of removable elements the body of the page itself holds afterwards.
MainContent(doc) ==
  IF \E i \in Selectors : GoodElement(doc, i)
  THEN [kind |-> "element",
        selector |-> CHOOSE i \in Selectors :
                       /\ GoodElement(doc, i)
                       /\ \A j \in Selectors : GoodElement(doc, j) => i <= j,
        removed |-> 0, live |-> doc.removable, evaluated |-> TRUE]
  ELSE IF doc.hasBody
  THEN [kind |-> "body-cleaned", selector |-> 0, removed |-> doc.removable,
        live |-> doc.removable, evaluated |-> TRUE]
  ELSE [kind |-> "threw", selector |-> 0, removed |-> 0, live |-> doc.removable,
        evaluated |-> TRUE]

\* extractMainContent: the markup of the main content, or fullHtml when
\* page.evaluate rejects.
ExtractMainContent(doc, evalOk) ==
  IF evalOk /\ MainContent(doc).kind # "threw"
  THEN MainContent(doc)
  ELSE [kind |-> "full", selector |-> 0, removed |-> 0, live |-> doc.removable,
        evaluated |-> evalOk]

ExtractRun ==
  /\ xout = NoOutput
  /\ \E evalOk \in BOOLEAN : xout' = ExtractMainContent(xdoc, evalOk)
  /\ UNCHANGED <<xdoc, obstacleVars, textVars, promptVars, appVars>>

\* extractMainContent on every document of the bounded set.
InitExtract ==
  /\ InitApp
  /\ InitObstacles
  /\ InitText
  /\ InitPrompt
  /\ \E S \in SelectorSets(MaxMatched) : \E els \in [S -> TextLengths] :
       \E body \in Bodies : xdoc = Document(body, els)
  /\ xout = NoOutput
NextExtract == ExtractRun
SpecExtract == InitExtract /\ [][NextExtract]_vars

\* ----------------------------------------------------- handleCommonObstacles

\* commonSelectors, by their position in the list.
NumCommonSelectors == 23
CommonSelectors    == 1..NumCommonSelectors
\* The entries written button[contains(text(), "...")]: XPath inside an
\* attribute selector, which no CSS parser accepts.
XPathStyle == {5, 6, 7, 8, 19, 20, 21}
ValidCss(i) == i \notin XPathStyle

\* The outer catch: log a warning and go on.
ObstaclesCatch(cause) == [pc |-> "done", err |-> cause, raised |-> FALSE]

ObstaclesCall ==
  /\ hpc = "idle"
  /\ hpc' = "query"
  /\ hsel' = 1
  /\ UNCHANGED <<htried, hclicked, hfailed, hfallback, herr, hraised, xdoc, xout,
                 textVars, promptVars, appVars>>

\* The awaited call settles. In the loop it is page.$$(selector): it rejects
\* on a selector that is not CSS and when the page fails (pageOk); with a
\* match the first element is clicked, a rejected click is dropped, and the
\* loop goes on after the delay. After the last selector comes the $$eval
\* pass over the button-like elements. Whatever rejects outside the click
\* ends the call in the outer catch.
ObstaclesSettle(pageOk, found, clickOk) ==
  /\ hpc \in {"query", "fallback"}
  /\ IF hpc = "query"
     THEN IF ~ValidCss(hsel) \/ ~pageOk
          THEN LET c == ObstaclesCatch(IF ValidCss(hsel) THEN "page" ELSE "selector") IN
               /\ hpc' = c.pc
               /\ herr' = c.err
               /\ hraised' = c.raised
               /\ UNCHANGED <<hsel, htried, hclicked, hfailed, hfallback>>
          ELSE /\ htried' = htried \cup {hsel}
               /\ hclicked' = IF found /\ clickOk THEN hclicked \cup {hsel} ELSE hclicked
               /\ hfailed' = IF found /\ ~clickOk THEN hfailed \cup {hsel} ELSE hfailed
               /\ IF hsel < NumCommonSelectors
                  THEN hsel' = hsel + 1 /\ hpc' = "query"
                  ELSE hsel' = hsel /\ hpc' = "fallback"
               /\ UNCHANGED <<hfallback, herr, hraised>>
     ELSE IF ~pageOk
          THEN LET c == ObstaclesCatch("page") IN
               /\ hpc' = c.pc
               /\ herr' = c.err
               /\ hraised' = c.raised
               /\ UNCHANGED <<hsel, htried, hclicked, hfailed, hfallback>>
          ELSE /\ hfallback' = TRUE
               /\ hpc' = "done"
               /\ UNCHANGED <<hsel, htried, hclicked, hfailed, herr, hraised>>
  /\ UNCHANGED <<xdoc, xout, textVars, promptVars, appVars>>

\* One call of handleCommonObstacles on any page.
NextObstacles ==
  \/ ObstaclesCall
  \/ \E pageOk \in BOOLEAN, found \in BOOLEAN, clickOk \in BOOLEAN :
       ObstaclesSettle(pageOk, found, clickOk)
SpecObstacles == Init /\ [][NextObstacles]_vars

\* ------------------------------------------- cleanAndConvertToMarkdown, clean-up

\* The converted text as a sequence of pieces. No pattern of the clean-up
\* matches across a newline, so a piece is a newline or lies within one line:
\*   "nl"   a newline                    "sp"   a space or tab
\*   "txt"  text no pattern matches      "img"  a match of !\[.*?\]\(.*?\)
\*   "link" a match of \[(.*?)\]\((https?:\/\/.*?)\)
\*   "num"  a match of (\d+)\.           "dash" the two characters "- "
Pieces == {"nl", "sp", "txt", "img", "link", "num", "dash"}

RECURSIVE TextsUpTo(_)
TextsUpTo(n) ==
  IF n = 0 THEN {<<>>}
  ELSE LET T == TextsUpTo(n - 1) IN T \cup {Append(t, p) : t \in T, p \in Pieces}

\* .replace(/\n{3,}/g, '\n\n'): of a run of newlines the first two stay.
RECURSIVE CollapseNewlines(_)
CollapseNewlines(md) ==
  IF md = <<>> THEN <<>>
  ELSE LET front == CollapseNewlines(SubSeq(md, 1, Len(md) - 1))
           last  == md[Len(md)]
           n     == Len(front)
       IN IF last = "nl" /\ n >= 2 /\ front[n] = "nl" /\ front[n - 1] = "nl"
          THEN front
          ELSE Append(front, last)

\* .replace(/!\[.*?\]\(.*?\)/g, '')
IsKept(p) == p # "img"
RemoveImages(md) == SelectSeq(md, IsKept)

\* .replace(/\[(.*?)\]\((https?:\/\/.*?)\)/g, '$1 ($2)')
RewriteLinks(md) == [i \in DOMAIN md |-> IF md[i] = "link" THEN "linktext" ELSE md[i]]

\* .replace(/(\d+)\. /g, '$1\\. ')
EscapeNumbered(md) == [i \in DOMAIN md |-> IF md[i] = "num" THEN "numesc" ELSE md[i]]

\* .replace(/^- /gm, '* '): only at the start of a line.
StandardizeBullets(md) ==
  [i \in DOMAIN md |->
     IF md[i] = "dash" /\ (i = 1 \/ md[i - 1] = "nl") THEN "star" ELSE md[i]]

\* .trim()
IsSpace(p) == p \in {"nl", "sp"}
RECURSIVE TrimStart(_)
TrimStart(md) ==
  IF md # <<>> /\ IsSpace(Head(md)) THEN TrimStart(Tail(md)) ELSE md
RECURSIVE TrimEnd(_)
TrimEnd(md) ==
  IF md # <<>> /\ IsSpace(md[Len(md)]) THEN TrimEnd(SubSeq(md, 1, Len(md) - 1)) ELSE md
Trim(md) == TrimEnd(TrimStart(md))

\* The chain of replacements, in the order of the code.
CleanMarkdown(md) ==
  Trim(StandardizeBullets(EscapeNumbered(RewriteLinks(RemoveImages(CollapseNewlines(md))))))

CleanRun ==
  /\ ~mdout.done
  /\ mdout' = [done |-> TRUE, text |-> CleanMarkdown(mdin)]
  /\ UNCHANGED <<mdin, xdoc, xout, obstacleVars, promptVars, appVars>>

\* The clean-up on every converted text of the bounded set.
InitMarkdown ==
  /\ InitApp
  /\ InitPage
  /\ InitObstacles
  /\ InitPrompt
  /\ mdin \in TextsUpTo(MaxMarkdown)
  /\ mdout = NoText
NextMarkdown == CleanRun
SpecMarkdown == InitMarkdown /\ [][NextMarkdown]_vars

\* ---------------------------------------------------------------- trimPrompt

MinChunkSize == 140
\* `overflowTokens * 3`: the characters one token is taken to stand for.
CharsPerTokenEstimate == 3

\* A prompt is a text of one kind, known by its length in characters; a part
\* of it cut from its start is known by its length too. The encoder gives a
\* text of density d one token for every d characters, the last one possibly
\* shorter.
Densities == {1, 3, 4}
Tokens(len, d) == (len + d - 1) \div d

\* prompt.slice(0, n), n not negative
Slice(len, n) == IF n < len THEN n ELSE len

\* The length of splitter.splitText(prompt)[0] ?? '': the first chunk is a
\* part of the text, or there is no chunk at all.
FirstChunks(len, chunkSize) == 0..len

HardCutNone(len, chunkSize) == len

\* prompt.slice(0, chunkSize), taken when the first chunk is as long as the
\* prompt.
HardCut(len, chunkSize) == Slice(len, chunkSize)

\* One invocation of trimPrompt on a prompt of length len: it returns
\* (next = "done", the length returned) or calls itself (next = "run", the
\* length of the prompt it passes).
TrimPrompt(len, d, contextSize, chunk) ==
  LET length         == Tokens(len, d)
      overflowTokens == length - contextSize
      chunkSize      == len - overflowTokens * CharsPerTokenEstimate
  IN IF len = 0 THEN [next |-> "done", len |-> 0]
     ELSE IF length <= contextSize THEN [next |-> "done", len |-> len]
     ELSE IF chunkSize < MinChunkSize
     THEN [next |-> "done", len |-> Slice(len, MinChunkSize)]
     ELSE IF chunk = len
     THEN [next |-> "run", len |-> HardCut(len, chunkSize)]
     ELSE [next |-> "run", len |-> chunk]

\* The chunk size of the invocation, where it computes one.
ChunkSizeOf(len, d, contextSize) ==
  len - (Tokens(len, d) - contextSize) * CharsPerTokenEstimate

\* The invocation gets as far as the splitter.
SplitsText(len, d, contextSize) ==
  /\ len # 0
  /\ Tokens(len, d) > contextSize
  /\ ChunkSizeOf(len, d, contextSize) >= MinChunkSize

TrimRun ==
  /\ ppc = "run"
  /\ \E chunk \in IF SplitsText(pprompt, pdens, pctx)
                   THEN FirstChunks(pprompt, ChunkSizeOf(pprompt, pdens, pctx))
                   ELSE {0} :
       LET r == TrimPrompt(pprompt, pdens, pctx, chunk) IN
       /\ ppc' = r.next
       /\ IF r.next = "run"
          THEN pprompt' = r.len /\ pdepth' = pdepth + 1 /\ pret' = pret
          ELSE pret' = r.len /\ UNCHANGED <<pprompt, pdepth>>
  /\ UNCHANGED <<porig, pdens, pctx, xdoc, xout, obstacleVars, textVars, appVars>>

\* trimPrompt called on every prompt and context size of the bounded sets.
InitTrim ==
  /\ InitApp
  /\ InitPage
  /\ InitObstacles
  /\ InitText
  /\ ppc = "run"
  /\ porig \in 0..MaxPrompt
  /\ pdens \in Densities
  /\ pctx \in 1..MaxContext
  /\ pprompt = porig
  /\ pdepth = 0
  /\ pret = 0
NextTrim == TrimRun
\* A call of a synchronous function runs on until it returns.
SpecTrim == InitTrim /\ [][NextTrim]_vars /\ WF_vars(NextTrim)

\* ================================================================== claims
OpenPages == {t \in Tasks : topen[t]}
Returns(s) == spc[s] = "done"

\* C1: at every moment at most PUPPETEER_CONCURRENCY page contexts are open,
\* however many URLs are queued.
C1_ConcurrencyCap == Cardinality(OpenPages) <= PUPPETEER_CONCURRENCY
\* Two pages open while a third URL waits for a slot.
C1_Witness ==
  /\ Cardinality(OpenPages) = PUPPETEER_CONCURRENCY
  /\ Len(queue) >= 1

\* C2: search never raises: whatever fails (search request, browser launch,
\* page creation, navigation, extraction, normalization), a search that is over
\* has given its caller a well-formed SearchResponse {query, data, timing}, and
\* its data is empty when the search request failed.
WellFormedItem(it) == it.url # Absent /\ it.title # Absent
WellFormedResponse(s) ==
  /\ resp[s].kind = "returned"
  /\ resp[s].query = Query(s)
  /\ \A i \in 1..Len(resp[s].data) : WellFormedItem(resp[s].data[i])
  /\ resp[s].total \in Nat /\ resp[s].search \in Nat /\ resp[s].content \in Nat
  /\ resp[s].details \in DOMAIN timings
C2_SearchNeverRaises ==
  \A s \in Searches :
    /\ resp[s].kind \in {"pending", "returned"}
    /\ Returns(s) => WellFormedResponse(s)
    /\ Returns(s) /\ sres[s] = <<>> => resp[s].data = <<>>
\* A search is over whose first fetch failed and whose second one came through
\* with the normalizer failing.
C2_Witness ==
  /\ Returns(1) /\ Len(sres[1]) = 2
  /\ tcaught[<<1, 1>>] /\ ~tcaught[<<1, 2>>]
  /\ tres[<<1, 2>>].markdown = EmptyStr

\* C3: data never holds an item with neither markdown nor html, and has at most
\* as many items as the search returned.
C3_NoEmptyItems ==
  \A s \in Searches :
    Returns(s) =>
      /\ Len(resp[s].data) <= Len(sres[s])
      /\ \A i \in 1..Len(resp[s].data) :
           ~(Falsy(resp[s].data[i].markdown) /\ Falsy(resp[s].data[i].html))

\* C4: whatever order the fetches settle in, item i of data carries the url,
\* title and snippet of search result i and the content fetched for that url.
ContentOf(x, u) == x \in {Absent, EmptyStr} \/ x[3] = u[2]
C4_PositionalZip ==
  \A s \in Searches :
    Returns(s) =>
      \A i \in 1..Len(resp[s].data) :
        /\ resp[s].data[i].url = sres[s][i].url
        /\ resp[s].data[i].title = sres[s][i].title
        /\ resp[s].data[i].snippet = sres[s][i].snippet
        /\ ContentOf(resp[s].data[i].html, sres[s][i].url)
        /\ ContentOf(resp[s].data[i].markdown, sres[s][i].url)
\* The fetch of rank 1 settled last, after those of ranks 2 and 3, and every
\* item has its content.
C4_Witness ==
  /\ Returns(1) /\ Len(resp[1].data) = 3 /\ slast[1] = 1
  /\ \A i \in 1..3 : ~Falsy(resp[1].data[i].html)

\* C5: the browser session is never launched twice concurrently, every caller
\* of getBrowser gets the session this.browser holds, and at most one browser
\* process is alive.
C5_SingleSession ==
  /\ Cardinality({t \in Tasks : tpc[t] = "launch"}) <= 1
  /\ Cardinality(alive) <= 1
  /\ \A t \in Tasks : tbrowser[t] # NoBrowser => tbrowser[t] = browser

\* C6: a page context a fetch opened is closed when the fetch has returned, on
\* every exit path; when search returns none of its pages is open.
C6_PagesClosed ==
  /\ \A t \in Tasks : tpc[t] \in {"none", "queued", "done"} => ~topen[t]
  /\ \A s \in Searches : Returns(s) => \A t \in TasksOf(s) : ~topen[t]
\* A search is over with a fetch that opened a page and then failed, and a
\* fetch that opened a page and came through.
C6_Witness ==
  /\ Returns(1) /\ Len(sres[1]) = 2
  /\ tpage[<<1, 1>>] # NoPage /\ tcaught[<<1, 1>>]
  /\ tpage[<<1, 2>>] # NoPage /\ ~tcaught[<<1, 2>>]

\* C7: fetchContentViaPuppeteer never raises: an internal error gives {} and
\* nothing else does; the result of a fetch that came through is in the
\* response whatever happened to the other fetches.
C7_FetchNeverRaises ==
  /\ \A t \in Tasks :
       /\ ~tthrew[t]
       /\ tpc[t] \in {"pclose", "done"} => (tcaught[t] <=> tres[t] = EmptyResult)
  /\ \A s \in Searches :
       Returns(s) /\ sres[s] # <<>> =>
         /\ Len(resp[s].data) = Len(sres[s])
         /\ \A i \in 1..Len(sres[s]) :
              ~tcaught[<<s, i>>] =>
                /\ resp[s].data[i].html = tres[<<s, i>>].html
                /\ resp[s].data[i].html # Absent
\* A search is over whose first fetch failed and whose second one came through.
C7_Witness ==
  /\ Returns(1) /\ Len(sres[1]) = 2
  /\ tcaught[<<1, 1>>] /\ tres[<<1, 1>>] = EmptyResult
  /\ ~tcaught[<<1, 2>>] /\ resp[1].data[2].html # Absent

\* C8: a navigation error does not abort the pipeline: obstacle handling, HTML
\* capture, extraction and normalization run next, in that order, and the
\* fetch returns their html / markdown unless a later stage fails.
NavFailed(t) == tstages[t] # <<>> /\ tstages[t][1] = "nav_error"
C8_NavErrorContinues ==
  \A t \in Tasks :
    NavFailed(t) =>
      /\ Len(tstages[t]) >= 2
      /\ tstages[t][2] = "obstacles"
      /\ tpc[t] = "pclose" /\ ~tcaught[t] =>
           /\ tstages[t] = <<"nav_error", "obstacles", "content", "extract", "normalize">>
           /\ tres[t].html # Absent /\ tres[t].markdown # Absent
      /\ tcaught[t] => tstages[t] = <<"nav_error", "obstacles">>
\* A fetch whose navigation failed is returning html and markdown.
C8_Witness ==
  \E t \in Tasks :
    /\ NavFailed(t) /\ tpc[t] = "pclose" /\ ~tcaught[t]
    /\ tres[t].html # Absent /\ ~Falsy(tres[t].markdown)

\* C9: with zero upstream results search returns {query, data: [], timing}
\* with timing.content = 0.
C9_ZeroResults ==
  \A s \in Searches :
    Returns(s) /\ sres[s] = <<>> =>
      /\ resp[s].kind = "returned"
      /\ resp[s].query = Query(s)
      /\ resp[s].data = <<>>
      /\ resp[s].content = 0
\* A search without results is over, and it took time.
C9_Witness == Returns(1) /\ sres[1] = <<>> /\ resp[1].total > 0

\* C10: close() with no session does nothing and does not raise; it raises
\* only when the awaited browser.close() rejects; when it returns, this.browser
\* is null and the browser it closed is gone; the next getBrowser launches a
\* browser that was not there before.
CloseCalled   == ncloses' = ncloses + 1
CloseFinished == cpc = "closing" /\ cpc' = "idle"
ClientEnded(s) == sclient[s].how # "none"
C11_ClientFailsSoft ==
  \A s \in Searches :
    /\ ~apiKey => ~ssent[s]
    /\ ClientEnded(s) /\ ~apiKey => sclient[s].how = "nokey"
    /\ ClientEnded(s) => ~sclient[s].threw
    /\ sclient[s].how \in {"nokey", "error", "parse"} =>
         /\ sres[s] = <<>>
         /\ Returns(s) /\ resp[s].kind = "returned" /\ resp[s].data = <<>>
\* The request was sent and failed, and search has returned.
C11_Witness ==
  /\ apiKey /\ ssent[1] /\ sclient[1].how = "error"
  /\ Returns(1) /\ resp[1].data = <<>>

\* C12: search returns at most `limit` items, 5 when no limit is given,
\* however many organic results the API sent.
Asked(s) == IF sopt[s].given THEN sopt[s].value ELSE MAX_RESULTS
C12_AtMostLimit ==
  \A s \in Searches : Returns(s) => Len(resp[s].data) <= Asked(s)

\* C13: within one search the fetch tasks write distinct timing-ledger keys:
\* a task that publishes its per-URL stage entries writes no key that is
\* already in the ledger, so it overwrites no entry of another task.
Publishes(t) == tpc[t] = "content" /\ tpc'[t] # "content" /\ ~tcaught'[t]
PublishedKeys(t) == {<<"pfx", Prefix(UrlOf(t)), k>> : k \in DOMAIN tl'[t]}
C13_DistinctKeys ==
  [][ \A t \in Tasks :
        Publishes(t) => PublishedKeys(t) \cap DOMAIN timings[cur] = {} ]_vars

\* C14: a SearchResponse is not mutated after search has returned it: its
\* query, data and timing, timing.details included, stay as they were.
C14_ResponseFrozen ==
  [][ \A s \in Searches :
        Returns(s) =>
          /\ resp'[s] = resp[s]
          /\ timings'[resp[s].details] = timings[resp[s].details] ]_vars
\* C15: no step of search or of a fetch closes the browser: a browser process
\* ends only in the step that finishes a close() call; with close() called
\* only while no search is running, no fetch is in flight in that step.
InFlight(t) == tpc[t] \notin {"none", "queued", "done"}
C15_BrowserStaysAlive ==
  [][ (\E b \in alive : b \notin alive') =>
        /\ CloseFinished
        /\ \A t \in Tasks : ~InFlight(t) ]_vars
\* The first search is over and left its browser running; the fetch of the
\* second search has its page open in that browser.
C15_Witness ==
  /\ Returns(1) /\ launched = 1 /\ browser = 1
  /\ tpc[<<2, 1>>] = "nav" /\ tbrowser[<<2, 1>>] = 1 /\ topen[<<2, 1>>]
\* C16: in every SearchResponse timing.total is at least timing.search plus
\* timing.content, and timing.content is not negative (0 when nothing was
\* fetched), so timing.total >= timing.search.
C16_TotalCoversParts ==
  \A s \in Searches :
    Returns(s) =>
      /\ resp[s].content >= 0 /\ resp[s].search >= 0
      /\ resp[s].total >= resp[s].search + resp[s].content
      /\ resp[s].total >= resp[s].search
      /\ sres[s] = <<>> => resp[s].content = 0
\* A search is over whose search request and whose fetches both took time.
C16_Witness ==
  /\ Returns(1) /\ sres[1] # <<>>
  /\ resp[1].search > 0 /\ resp[1].content > 0
\* C17: when every awaited operation settles in the end, every fetch task
\* queued behind the concurrency cap gets a slot and runs to its end, and
\* search returns, whether the fetches before it failed or not.
AllFetched(s) == \A t \in TasksOf(s) : tpc[t] = "done"
C17_QueuedTasksRun ==
  (spc[1] \in {"serper", "await"}) ~> (Returns(1) /\ AllFetched(1))
\* The two fetches that ran first both failed, and the third, which waited
\* for a slot, ran its pipeline to the end; search has returned.
C17_Witness ==
  /\ Returns(1) /\ Len(sres[1]) = 3
  /\ tcaught[<<1, 1>>] /\ tcaught[<<1, 2>>]
  /\ tpc[<<1, 3>>] = "done" /\ ~tcaught[<<1, 3>>]
\* C19: extraction and normalization errors degrade instead of failing the
\* fetch: when the extractor failed inside, the fetch returns the full captured
\* page HTML as html; when the normalizer failed inside, markdown is '' and
\* html is still returned; in neither case is the result {}.
Fetched(t) == tpc[t] \in {"pclose", "done"}
C19_ErrorsDegrade ==
  \A t \in Tasks :
    Fetched(t) /\ terr[t] # {} =>
      /\ ~tcaught[t] /\ ~tthrew[t]
      /\ tres[t] # EmptyResult
      /\ "extract" \in terr[t] => tres[t].html = Html("full", UrlOf(t))
      /\ "extract" \notin terr[t] => tres[t].html = Html("main", UrlOf(t))
      /\ "normalize" \in terr[t] => tres[t].markdown = EmptyStr
      /\ "normalize" \notin terr[t] => tres[t].markdown = Markdown("full", UrlOf(t))
\* search has returned an item whose extraction failed (html is the full page)
\* and one whose normalization failed (markdown is '').
C19_Witness ==
  /\ Returns(1) /\ Len(resp[1].data) = 2
  /\ terr[<<1, 1>>] = {"extract"} /\ resp[1].data[1].html = Html("full", Url(1))
  /\ terr[<<1, 2>>] = {"normalize"} /\ resp[1].data[2].markdown = EmptyStr
  /\ resp[1].data[2].html = Html("main", Url(2))

\* ---------------------------------------------------------------------- C18

\* The share of the body's text the element of selector i holds is at least,
\* or more than, 30%; a document without a body has a body text of length 0.
AtLeastShare(i) == RatioDen * xdoc.els[i] >= RatioNum * xdoc.bodyLen
MoreThanShare(i) == RatioDen * xdoc.els[i] > RatioNum * xdoc.bodyLen
LongEnough(i) == i \in DOMAIN xdoc.els /\ xdoc.els[i] > MinTextLength
Evaluated == xout.kind # "none" /\ xout.evaluated

\* C18 as stated: extractMainContent returns the markup of the first selector
\* in priority order whose element has more than 300 characters of text and at
\* least 30% of the body's text; it returns the cleaned clone of the body only
\* when no selector satisfies both, and leaves the body of the page as it was.
C18_FirstAtLeastShare ==
  Evaluated =>
    /\ \A i \in Selectors :
         (/\ LongEnough(i) /\ AtLeastShare(i)
          /\ \A j \in 1..(i - 1) : ~(LongEnough(j) /\ AtLeastShare(j)))
         => xout.kind = "element" /\ xout.selector = i
    /\ xout.kind = "body-cleaned"
         => ~\E i \in Selectors : LongEnough(i) /\ AtLeastShare(i)
    /\ xout.live = xdoc.removable

\* C18 amended: extractMainContent returns the markup of the first selector in
\* priority order whose element has more than 300 characters of text and more
\* than 30% of the body's text, without regard to later selectors; it returns
\* the cleaned clone of the body, every removable element taken out of the
\* clone, only when no selector satisfies both, and it does so whenever the
\* document has a body; the body of the page is left as it was.
C18_FirstMoreThanShare ==
  Evaluated =>
    /\ \A i \in Selectors :
         (/\ LongEnough(i) /\ MoreThanShare(i)
          /\ \A j \in 1..(i - 1) : ~(LongEnough(j) /\ MoreThanShare(j)))
         => xout.kind = "element" /\ xout.selector = i
    /\ xout.kind = "body-cleaned"
         => /\ ~\E i \in Selectors : LongEnough(i) /\ MoreThanShare(i)
            /\ xout.removed = xdoc.removable
    /\ (xdoc.hasBody /\ ~\E i \in Selectors : LongEnough(i) /\ MoreThanShare(i))
         => xout.kind = "body-cleaned"
    /\ xout.live = xdoc.removable

\* An element holding exactly 30% of the body's text is passed over and a
\* later selector is returned.
C18_Witness ==
  /\ Evaluated
  /\ xout.kind = "element"
  /\ \E j \in 1..(xout.selector - 1) :
       /\ LongEnough(j)
       /\ RatioDen * xdoc.els[j] = RatioNum * xdoc.bodyLen

\* ---------------------------------------------------------------------- C20

\* C20: handleCommonObstacles never passes an error on to the fetch pipeline,
\* and a click that fails does not stop it: when the page itself answers every
\* call, the handler has, at its end, queried every selector of the list after
\* the one whose click failed and run the fallback pass over the button-like
\* elements.
C20_ClickFailureGoesOn ==
  /\ ~hraised
  /\ (hpc = "done" /\ herr # "page") =>
       \A i \in hfailed :
         /\ \A j \in CommonSelectors : j > i => j \in htried
         /\ hfallback

\* ---------------------------------------------------------------------- C21

\* C21: the text the normalizer returns holds no run of three or more newlines,
\* also after image removal, link rewriting, list-marker rewriting and trim.
C21_NoLongNewlineRun ==
  mdout.done =>
    ~\E i \in 1..(Len(mdout.text) - 2) :
       mdout.text[i] = "nl" /\ mdout.text[i + 1] = "nl" /\ mdout.text[i + 2] = "nl"

\* ---------------------------------------------------------------------- C22

\* C22: once close() has returned, called with no search in flight, no browser
\* process the instance launched is alive.
C22_NoOrphanBrowser ==
  (cpc = "idle" /\ cout = "closed" /\ Quiet) => alive = {}

\* ---------------------------------------------------------------------- C23

\* C23: trimPrompt terminates for every prompt and every positive context
\* size: each recursive call is made on a string strictly shorter than the
\* prompt of its caller, the number of recursive calls never exceeds the
\* length of the prompt of the outermost call, and the call returns.
Recurses == ppc = "run" /\ ppc' = "run" /\ pdepth' = pdepth + 1
C23_TrimTerminates ==
  /\ [][Recurses => pprompt' < pprompt]_vars
  /\ [](pdepth <= porig)
  /\ <>(ppc = "done")
\* A call has returned after two recursive calls or more, the last of them on
\* a prompt within the context size.
C23_Witness ==
  /\ ppc = "done" /\ pctx > 0 /\ pdepth >= 2
  /\ pret = pprompt /\ pprompt < porig

\* ---------------------------------------------------------------------- C24

\* C24: trimPrompt returns a part of the prompt, cut from its start, of at
\* most contextSize tokens, and returns a prompt already within contextSize
\* as it is.
C24_WithinContext ==
  ppc = "done" =>
    /\ pret <= porig
    /\ Tokens(pret, pdens) <= pctx
    /\ Tokens(porig, pdens) <= pctx => pret = porig /\ pdepth = 0

====
